---- MODULE Spec2Model ----
(***************************************************************************)
(* A model of bayeslite's SessionTracer (src/src/sessions.py): the log of  *)
(* sessions and session entries kept in the two SQLite tables              *)
(* bayesdb_session and bayesdb_session_entries, the tracers constructed on *)
(* one database, the completion callbacks their trace hooks hand out, and  *)
(* the inspection, reset and upload operations.                            *)
(*                                                                         *)
(* Every method is one atomic action: the tracer is single-threaded and    *)
(* synchronous.  The variable `last` holds what the most recent call       *)
(* received and returned, so that contracts on return values are state     *)
(* predicates.  The fields `uid` of a row and the variable `callbacks` are *)
(* history: they name the trace-hook invocation a row or a closure comes   *)
(* from, which the id column cannot do once the id sequence is reset.      *)
(***************************************************************************)
EXTENDS Integers, Sequences, FiniteSets, TLC

\* ----- bounds of the model ------------------------------------------------
MaxTracers == 2      \* SessionTracer objects constructed on the database
MaxTraces  == 2      \* trace-hook invocations over the whole run
MaxTime    == 1      \* time.time() takes the values 0..MaxTime

Tracers  == 1..MaxTracers
Times    == 0..MaxTime
Types    == {"bql", "sql"}
Queries  == {"SELECT 1;"}
\* bindings: the empty dict {}
Bindings == {[kind |-> "dict", items |-> <<>>]}

VARIABLES
    bayesdb_session,          \* the ids of the rows of table bayesdb_session
    bayesdb_session_entries,  \* the rows of table bayesdb_session_entries
    sqlite_sequence,          \* table name -> AUTOINCREMENT counter (0: no row)
    constructed,              \* the tracers whose __init__ has run
    session_id,               \* tracer -> self.session_id
    registered,               \* tracer -> its two hooks are registered with the engine
    callbacks,                \* the closures returned by _trace, in order of creation
    newest,                   \* the tracer that ran _start_new_session last (0: none)
    last                      \* the most recent call and its outcome

vars == <<bayesdb_session, bayesdb_session_entries, sqlite_sequence,
          constructed, session_id, registered, callbacks, newest, last>>

tables == <<bayesdb_session, bayesdb_session_entries, sqlite_sequence>>

\* ----- helpers ------------------------------------------------------------
Max(S) == CHOOSE m \in S : \A n \in S : n <= m

\* (variant: the largest rowid is handed out again)
NextRowid_reuse(ids, seq) == Max(ids \cup {seq})

\* The rowid SQLite gives the next row of an AUTOINCREMENT table: one more
\* than the largest rowid the table holds or has ever held (sqlite_sequence).
NextRowid(ids, seq) == Max(ids \cup {seq}) + 1

Digit(n) == <<"0", "1", "2", "3", "4", "5", "6", "7", "8", "9">>[n + 1]

RECURSIVE JoinItems(_)
JoinItems(items) ==
    IF Len(items) = 0 THEN ""
    ELSE IF Len(items) = 1 THEN Digit(items[1])
    ELSE Digit(items[1]) \o ", " \o JoinItems(Tail(items))

\* json.dumps of the bindings: a dict prints in braces, a tuple or list in
\* brackets with ", " between the items.
JsonDumps(b) ==
    IF b.kind = "dict" THEN "{" \o JoinItems(b.items) \o "}"
    ELSE "[" \o JoinItems(b.items) \o "]"

\* range(a, b) of Python: a, a+1, ..., b-1
Range(a, b) == [i \in 1..(IF b > a THEN b - a ELSE 0) |-> a + i - 1]

\* ----- initial state: an open database with empty session tables ----------
Init ==
    /\ bayesdb_session = {}
    /\ bayesdb_session_entries = {}
    /\ sqlite_sequence = [n \in {"bayesdb_session", "bayesdb_session_entries"} |-> 0]
    /\ constructed = {}
    /\ session_id = [t \in Tracers |-> 0]
    /\ registered = [t \in Tracers |-> FALSE]
    /\ callbacks = <<>>
    /\ newest = 0
    /\ last = [op |-> "none"]

\* ----- _start_new_session -------------------------------------------------
\* INSERT INTO bayesdb_session DEFAULT VALUES
SessionsAfterInsert(sess, seq) ==
    sess \cup {NextRowid(sess, seq["bayesdb_session"])}

SequenceAfterSessionInsert(sess, seq) ==
    [seq EXCEPT !["bayesdb_session"] = NextRowid(sess, seq["bayesdb_session"])]

\* (variant: last_insert_rowid() read before the INSERT, the previous rowid)
StartedSessionId_before(sess, seq) == seq["bayesdb_session"]

\* self.session_id = int(SELECT last_insert_rowid()), read after the INSERT
\* into the table sess with counters seq: the rowid that INSERT assigned
StartedSessionId(sess, seq) == NextRowid(sess, seq["bayesdb_session"])

\* ----- _check_unfinished_entries ------------------------------------------
\* SELECT COUNT(*) ... WHERE completed=0 AND session_id = self.session_id - 1
\* the session the check looks at: WHERE ... session_id = self.session_id - 1
ExaminedSession(cur) == cur - 1

UncompletedEntries(rows, cur) ==
    Cardinality({e \in rows : e.completed = 0 /\ e.session_id = ExaminedSession(cur)})

\* the warnings printed for a count: one if it is positive
Warnings(uncompleted) == IF uncompleted > 0 THEN 1 ELSE 0

\* ----- __init__ -----------------------------------------------------------
\* Tracers are numbered in the order of their construction.
__init__(t) ==
    /\ t = Cardinality(constructed) + 1
    /\ constructed' = constructed \cup {t}
    /\ registered' = [registered EXCEPT ![t] = TRUE]
    /\ bayesdb_session' = SessionsAfterInsert(bayesdb_session, sqlite_sequence)
    /\ sqlite_sequence' = SequenceAfterSessionInsert(bayesdb_session, sqlite_sequence)
    /\ session_id' = [session_id EXCEPT
                         ![t] = StartedSessionId(bayesdb_session, sqlite_sequence)]
    /\ newest' = t
    /\ LET n == UncompletedEntries(bayesdb_session_entries, session_id'[t])
       IN last' = [op |-> "__init__", tracer |-> t,
                   uncompleted |-> n, warnings |-> Warnings(n)]
    /\ UNCHANGED <<bayesdb_session_entries, callbacks>>

\* the check called on its own, on a tracer that exists
_check_unfinished_entries(t) ==
    /\ t \in constructed
    /\ LET n == UncompletedEntries(bayesdb_session_entries, session_id[t])
       IN last' = [op |-> "_check_unfinished_entries", tracer |-> t,
                   uncompleted |-> n, warnings |-> Warnings(n)]
    /\ UNCHANGED <<tables, constructed, session_id, registered, callbacks, newest>>

\* ----- _trace, _bql_trace, _sql_trace -------------------------------------
\* the id SQLite gives the row of INSERT INTO bayesdb_session_entries
InsertedEntryId(rows, seq) ==
    NextRowid({e.id : e \in rows}, seq["bayesdb_session_entries"])

\* (variant: last_insert_rowid() read before the INSERT, the previous rowid)
CapturedEntryId_before(rows, seq) == seq["bayesdb_session_entries"]

\* entry_id = int(SELECT last_insert_rowid()), read after that INSERT; the
\* closure returned by _trace captures it
CapturedEntryId(rows, seq) ==
    NextRowid({e.id : e \in rows}, seq["bayesdb_session_entries"])

\* (variant: a blank between the query and the bindings)
EntryData_spaced(query, bindings) == query \o " " \o JsonDumps(bindings)

\* data = query + json.dumps(bindings)
EntryData(query, bindings) == query \o JsonDumps(bindings)

\* The engine calls the hooks of a tracer for the queries it executes while
\* they are registered with it, and not otherwise.
EngineCalls(t) == registered[t]

_trace(t, type, query, bindings, now) ==
    /\ t \in constructed
    /\ EngineCalls(t)
    /\ Len(callbacks) < MaxTraces
    /\ LET id == InsertedEntryId(bayesdb_session_entries, sqlite_sequence)
           entry_id == CapturedEntryId(bayesdb_session_entries, sqlite_sequence)
           uid == Len(callbacks) + 1
       IN /\ bayesdb_session_entries' = bayesdb_session_entries \cup
                 {[id |-> id, session_id |-> session_id[t], time |-> now,
                   type |-> type, data |-> EntryData(query, bindings),
                   completed |-> 0, uid |-> uid]}
          /\ sqlite_sequence' =
                 [sqlite_sequence EXCEPT !["bayesdb_session_entries"] = id]
          /\ callbacks' = Append(callbacks, [entry_id |-> entry_id, called |-> FALSE])
          /\ last' = [op |-> "_trace", tracer |-> t, type |-> type,
                      query |-> query, bindings |-> bindings,
                      entry_id |-> entry_id, uid |-> uid]
    /\ UNCHANGED <<bayesdb_session, constructed, session_id, registered, newest>>

_bql_trace(t, query, bindings, now) == _trace(t, "bql", query, bindings, now)

_sql_trace(t, query, bindings, now) == _trace(t, "sql", query, bindings, now)

\* ----- _finish: the body of a completion callback -------------------------
\* UPDATE bayesdb_session_entries SET completed=1 WHERE id=?
MatchedEntries(rows, entry_id) == {e \in rows : e.id = entry_id}

\* (variant: SET completed = 1 - completed)
FinishedEntries_toggle(rows, entry_id) ==
    {IF e \in MatchedEntries(rows, entry_id) THEN [e EXCEPT !.completed = 1 - @] ELSE e :
         e \in rows}

\* (variant: SET completed = completed + 1)
FinishedEntries_count(rows, entry_id) ==
    {IF e \in MatchedEntries(rows, entry_id) THEN [e EXCEPT !.completed = @ + 1] ELSE e :
         e \in rows}

FinishedEntries(rows, entry_id) ==
    {IF e \in MatchedEntries(rows, entry_id) THEN [e EXCEPT !.completed = 1] ELSE e :
         e \in rows}

\* Calling the closure callbacks[u].  `updated` names the rows the UPDATE
\* matched, each by the trace-hook invocation that inserted it.
_finish(u) ==
    /\ u \in 1..Len(callbacks)
    /\ LET entry_id == callbacks[u].entry_id
       IN /\ bayesdb_session_entries' = FinishedEntries(bayesdb_session_entries, entry_id)
          /\ last' = [op |-> "_finish", uid |-> u, entry_id |-> entry_id,
                      updated |-> {e.uid : e \in MatchedEntries(bayesdb_session_entries,
                                                                entry_id)}]
    /\ callbacks' = [callbacks EXCEPT ![u].called = TRUE]
    /\ UNCHANGED <<bayesdb_session, sqlite_sequence, constructed, session_id,
                   registered, newest>>

\* ----- clear_all_sessions -------------------------------------------------
\* (variant: the entry table's counter is not deleted)
ClearedSequence_sessionOnly(seq) ==
    [n \in DOMAIN seq |-> IF n = "bayesdb_session" THEN 0 ELSE seq[n]]

\* (variant: only the counter of bayesdb_session_entries is deleted)
ClearedSequence_entriesOnly(seq) ==
    [n \in DOMAIN seq |-> IF n = "bayesdb_session_entries" THEN 0 ELSE seq[n]]

\* DELETE FROM sqlite_sequence WHERE name="bayesdb_session"
\*                                OR name="bayesdb_session_entries"
ClearedSequence(seq) ==
    [n \in DOMAIN seq |->
        IF n = "bayesdb_session" \/ n = "bayesdb_session_entries" THEN 0 ELSE seq[n]]

\* DELETE FROM bayesdb_session_entries
EntriesAfterDelete(rows) == {}

\* DELETE FROM bayesdb_session
SessionsAfterDelete(sess) == {}

clear_all_sessions(t) ==
    /\ t \in constructed
    /\ LET rows0 == EntriesAfterDelete(bayesdb_session_entries)
           sess0 == SessionsAfterDelete(bayesdb_session)
           seq0 == ClearedSequence(sqlite_sequence)
       IN /\ bayesdb_session_entries' = rows0
          /\ bayesdb_session' = SessionsAfterInsert(sess0, seq0)
          /\ sqlite_sequence' = SequenceAfterSessionInsert(sess0, seq0)
          /\ session_id' = [session_id EXCEPT ![t] = StartedSessionId(sess0, seq0)]
    /\ newest' = t
    /\ last' = [op |-> "clear_all_sessions", tracer |-> t]
    /\ UNCHANGED <<constructed, registered, callbacks>>

\* clear_all_sessions cut short: its statements run one by one with no
\* transaction around them, and statement k of
\*   1 DELETE FROM bayesdb_session_entries   2 DELETE FROM bayesdb_session
\*   3 DELETE FROM sqlite_sequence           4 INSERT INTO bayesdb_session
\*   5 SELECT last_insert_rowid()
\* raises a storage error, which leaves the method with statements 1 .. k-1
\* done and self.session_id as it was.
clear_all_sessions_aborted(t, k) ==
    /\ t \in constructed
    /\ LET rows0 == IF k > 1 THEN EntriesAfterDelete(bayesdb_session_entries)
                    ELSE bayesdb_session_entries
           sess0 == IF k > 2 THEN SessionsAfterDelete(bayesdb_session)
                    ELSE bayesdb_session
           seq0 == IF k > 3 THEN ClearedSequence(sqlite_sequence) ELSE sqlite_sequence
       IN /\ bayesdb_session_entries' = rows0
          /\ bayesdb_session' = IF k > 4 THEN SessionsAfterInsert(sess0, seq0) ELSE sess0
          /\ sqlite_sequence' =
                 IF k > 4 THEN SequenceAfterSessionInsert(sess0, seq0) ELSE seq0
    /\ last' = [op |-> "clear_all_sessions_aborted", tracer |-> t, statement |-> k,
                raised |-> "StorageError"]
    /\ UNCHANGED <<constructed, session_id, registered, callbacks, newest>>

\* ----- list_sessions, current_session_id --------------------------------
list_sessions(t) ==
    /\ t \in constructed
    /\ last' = [op |-> "list_sessions", tracer |-> t, rows |-> bayesdb_session]
    /\ UNCHANGED <<tables, constructed, session_id, registered, callbacks, newest>>

current_session_id(t) ==
    /\ t \in constructed
    /\ last' = [op |-> "current_session_id", tracer |-> t, result |-> session_id[t]]
    /\ UNCHANGED <<tables, constructed, session_id, registered, callbacks, newest>>

\* ----- dump_session_as_json, dump_current_session_as_json -----------------
\* (variant: >= in place of >)
OutOfRange_inclusive(sid, cur) == sid >= cur \/ sid < 1

\* if session_id > self.session_id or session_id < 1: raise ValueError
OutOfRange(sid, cur) == sid > cur \/ sid < 1

\* SELECT * FROM bayesdb_session_entries WHERE session_id == ?
SelectEntries(rows, sid) == {e \in rows : e.session_id = sid}

\* the columns of a row as SELECT * returns them
Row(e) == <<e.id, e.session_id, e.time, e.type, e.data, e.completed>>

\* (variant: ORDER BY time ASC)
OrderByTimeAsc(rows) ==
    {s \in [1..Cardinality(rows) -> rows] :
        /\ \A i, j \in DOMAIN s : i # j => s[i] # s[j]
        /\ \A i, j \in DOMAIN s : i < j => s[i].time <= s[j].time}

\* ORDER BY time DESC: every order of the rows in which time never
\* increases (SQLite leaves the order of rows of equal time open)
OrderByTimeDesc(rows) ==
    {s \in [1..Cardinality(rows) -> rows] :
        /\ \A i, j \in DOMAIN s : i # j => s[i] # s[j]
        /\ \A i, j \in DOMAIN s : i < j => s[i].time >= s[j].time}

\* json.dumps(list(entries)): the JSON array of the rows, each row the
\* array of its columns; the set of results the statement may produce
Dumps(rows, sid) ==
    {[i \in DOMAIN s |-> Row(s[i])] : s \in OrderByTimeDesc(SelectEntries(rows, sid))}

DumpCall(name, t, sid) ==
    /\ t \in constructed
    /\ IF OutOfRange(sid, session_id[t])
       THEN last' = [op |-> name, tracer |-> t, arg |-> sid,
                     raised |-> "ValueError", result |-> <<>>]
       ELSE \E r \in Dumps(bayesdb_session_entries, sid) :
                last' = [op |-> name, tracer |-> t, arg |-> sid,
                         raised |-> "none", result |-> r]
    /\ UNCHANGED <<tables, constructed, session_id, registered, callbacks, newest>>

dump_session_as_json(t, sid) == DumpCall("dump_session_as_json", t, sid)

dump_current_session_as_json(t) ==
    DumpCall("dump_current_session_as_json", t, session_id[t])

\* ----- send_session_data --------------------------------------------------
\* (variant: range(1, self.session_id))
SendIds_short(cur) == Range(1, cur)

\* for id in range(1, self.session_id+1)
SendIds(cur) == Range(1, cur + 1)

\* The ways a POST can fail: requests.post raises (a transport error), or it
\* returns a response with a status that is not 2xx.
FailureKinds == {"raises", "status"}

\* (variant: the exception of requests.post is caught and the loop goes on)
Propagates_caught(how) == FALSE

\* r = requests.post(...): an exception leaves the loop and the method; a
\* response is taken as it comes, whatever its status.
Propagates(how) == how = "raises"

\* One run of the loop.  Iteration i dumps session ids[i] (which raises
\* ValueError when the id is out of range) and then POSTs the dump;
\* fail = i > 0 says the POST of iteration i fails, in the way `how`, and
\* fail = 0 that none does.  posts: the POSTs that returned, in order.
send_session_data(t) ==
    /\ t \in constructed
    /\ LET ids == SendIds(session_id[t])
           n == Len(ids)
           bad == {i \in 1..n : OutOfRange(ids[i], session_id[t])}
           stopDump == IF bad = {} THEN n + 1 ELSE CHOOSE i \in bad : \A j \in bad : i <= j
       IN \E fail \in 0..n, how \in FailureKinds :
            /\ fail = 0 => how = "raises"
            /\ LET stopPost == IF fail > 0 /\ Propagates(how) THEN fail ELSE n + 1
                   k == IF stopDump <= stopPost THEN stopDump - 1 ELSE stopPost - 1
                   raised == IF stopDump <= stopPost /\ stopDump <= n THEN "ValueError"
                             ELSE IF stopPost <= n THEN "RequestException"
                             ELSE "none"
               IN \E p \in [1..k -> UNION {Dumps(bayesdb_session_entries, ids[i]) :
                                              i \in 1..k}] :
                    /\ \A i \in 1..k : p[i] \in Dumps(bayesdb_session_entries, ids[i])
                    /\ last' = [op |-> "send_session_data", tracer |-> t,
                                posts |-> [i \in 1..k |->
                                              [id |-> ids[i], session_json |-> p[i]]],
                                raised |-> raised,
                                failed |-> IF fail = 0 THEN 0 ELSE ids[fail],
                                how |-> IF fail = 0 THEN "none" ELSE how]
    /\ UNCHANGED <<tables, constructed, session_id, registered, callbacks, newest>>

\* ----- start_saving_sessions, stop_saving_sessions ------------------------
\* Registering hooks that are registered, or unregistering hooks that are
\* not, is left to the engine; only the defined calls are modelled.
start_saving_sessions(t) ==
    /\ t \in constructed
    /\ ~registered[t]
    /\ registered' = [registered EXCEPT ![t] = TRUE]
    /\ last' = [op |-> "start_saving_sessions", tracer |-> t]
    /\ UNCHANGED <<tables, constructed, session_id, callbacks, newest>>

\* (variant: untrace is handed other callbacks than those registered)
stop_saving_sessions_others(t) ==
    /\ t \in constructed
    /\ registered[t]
    /\ last' = [op |-> "stop_saving_sessions", tracer |-> t]
    /\ UNCHANGED <<tables, constructed, session_id, registered, callbacks, newest>>

stop_saving_sessions(t) ==
    /\ t \in constructed
    /\ registered[t]
    /\ registered' = [registered EXCEPT ![t] = FALSE]
    /\ last' = [op |-> "stop_saving_sessions", tracer |-> t]
    /\ UNCHANGED <<tables, constructed, session_id, callbacks, newest>>

\* session ids a caller may ask a dump for: 0 .. one past the largest id
SessionArgs == 0..(MaxTracers + 1)

Next ==
    \/ \E t \in Tracers : __init__(t)
    \/ \E t \in Tracers, q \in Queries, b \in Bindings, now \in Times :
           _bql_trace(t, q, b, now)
    \/ \E t \in Tracers, q \in Queries, b \in Bindings, now \in Times :
           _sql_trace(t, q, b, now)
    \/ \E u \in 1..MaxTraces : _finish(u)
    \/ \E t \in Tracers : clear_all_sessions(t)
    \/ \E t \in Tracers : _check_unfinished_entries(t)
    \/ \E t \in Tracers : list_sessions(t)
    \/ \E t \in Tracers : current_session_id(t)
    \/ \E t \in Tracers, sid \in SessionArgs : dump_session_as_json(t, sid)
    \/ \E t \in Tracers : dump_current_session_as_json(t)
    \/ \E t \in Tracers : send_session_data(t)
    \/ \E t \in Tracers : start_saving_sessions(t)
    \/ \E t \in Tracers : stop_saving_sessions(t)

Spec == Init /\ [][Next]_vars

\* The operations that write to the storage, on a storage whose statements
\* may fail inside clear_all_sessions.
NextStorageFailure ==
    \/ \E t \in Tracers : __init__(t)
    \/ \E t \in Tracers, q \in Queries, b \in Bindings, now \in Times :
           _bql_trace(t, q, b, now)
    \/ \E t \in Tracers, q \in Queries, b \in Bindings, now \in Times :
           _sql_trace(t, q, b, now)
    \/ \E u \in 1..MaxTraces : _finish(u)
    \/ \E t \in Tracers : clear_all_sessions(t)
    \/ \E t \in Tracers, k \in 1..5 : clear_all_sessions_aborted(t, k)

SpecStorageFailure == Init /\ [][NextStorageFailure]_vars

\* The trace hooks on a wider choice of query texts and bindings: the empty
\* text and a text that reads as JSON among the queries; {}, (), (1,) and
\* (1, 2) as bindings.
DataQueries == {"SELECT 1;", "", "[0]"}

DataBindings ==
    {[kind |-> "dict", items |-> <<>>], [kind |-> "list", items |-> <<>>],
     [kind |-> "list", items |-> <<1>>], [kind |-> "list", items |-> <<1, 2>>]}

NextData ==
    \/ \E t \in Tracers : __init__(t)
    \/ \E t \in Tracers, q \in DataQueries, b \in DataBindings, now \in Times :
           _bql_trace(t, q, b, now)
    \/ \E t \in Tracers, q \in DataQueries, b \in DataBindings, now \in Times :
           _sql_trace(t, q, b, now)

SpecData == Init /\ [][NextData]_vars

\* ===== properties =========================================================
EntriesOfSession(s) == {e \in bayesdb_session_entries : e.session_id = s}

Pending(rows) == {e \in rows : e.completed = 0}

\* the completion callback of the invocation that inserted row e was called
CallbackCalled(e) == callbacks[e.uid].called

KnownSessionIds ==
    bayesdb_session \cup {e.session_id : e \in bayesdb_session_entries}

\* C1: in every session, once the completion callback of each of its
\* entries (bql or sql, any number of them) has been called, the session has
\* no entry with completed = 0.
C1_NoPendingOnceAllCalled ==
    \A s \in KnownSessionIds :
        (\A e \in EntriesOfSession(s) : CallbackCalled(e))
            => Cardinality(Pending(EntriesOfSession(s))) = 0

\* a session with a bql and a sql entry, both callbacks called
C1_Witness ==
    \E s \in bayesdb_session :
        /\ \E e1, e2 \in EntriesOfSession(s) : e1.type = "bql" /\ e2.type = "sql"
        /\ \A e \in EntriesOfSession(s) : CallbackCalled(e)

\* C2 (as claimed): an entry whose completion callback was never called has
\* completed = 0, whatever happened since; and the unfinished-entries check
\* of a construction returns the number of completed = 0 entries of session
\* (current id - 1) and prints one warning if that number is positive, none
\* if it is 0.
C2_NeverCalledStaysPending ==
    /\ \A e \in bayesdb_session_entries : ~CallbackCalled(e) => e.completed = 0
    /\ last.op = "__init__" =>
          /\ last.uncompleted =
                 Cardinality(Pending(EntriesOfSession(session_id[last.tracer] - 1)))
          /\ last.warnings = (IF last.uncompleted > 0 THEN 1 ELSE 0)

\* C3 (as claimed): a completion callback sets completed = 1 on the entry
\* inserted by the invocation that returned it, and touches no other entry.
C3_FinishOwnEntryOnly ==
    last.op = "_finish" =>
        /\ last.updated \subseteq {last.uid}
        /\ \A e \in bayesdb_session_entries : e.uid = last.uid => e.completed = 1

\* C4: dump_session_as_json(session_id) raises the out-of-range error exactly
\* when session_id < 1 or session_id > current_session_id(), and a call that
\* raises leaves the session table, the entry table and the id counters as
\* they were.
C4_DumpRaisesIffOutOfRange ==
    [][last'.op = "dump_session_as_json" =>
          /\ (last'.raised = "ValueError") <=>
                 (last'.arg < 1 \/ last'.arg > session_id'[last'.tracer])
          /\ last'.raised = "ValueError" => UNCHANGED tables]_vars

\* a dump of the id one past the current session raised, entries in the log
C4_Witness ==
    /\ last.op = "dump_session_as_json"
    /\ last.arg = session_id[last.tracer] + 1
    /\ last.raised = "ValueError"
    /\ bayesdb_session_entries # {}

\* C5: a dump that does not raise returns exactly the entries of the
\* requested session, once each, with time (the third column) never
\* increasing from one row to the next; dump_current_session_as_json is that dump for the tracer's
\* current session id.
C5_DumpIsSessionByTimeDesc ==
    (last.op \in {"dump_session_as_json", "dump_current_session_as_json"}
         /\ last.raised = "none") =>
        /\ Len(last.result) = Cardinality(EntriesOfSession(last.arg))
        /\ {last.result[i] : i \in DOMAIN last.result} =
               {<<e.id, e.session_id, e.time, e.type, e.data, e.completed>> :
                    e \in EntriesOfSession(last.arg)}
        /\ \A i, j \in DOMAIN last.result :
               i < j => last.result[i][3] >= last.result[j][3]
        /\ last.op = "dump_current_session_as_json" =>
               last.arg = session_id[last.tracer]

\* a dump of two entries, the later one first
C5_Witness ==
    /\ last.op = "dump_session_as_json"
    /\ last.raised = "none"
    /\ Len(last.result) = 2
    /\ last.result[1][3] > last.result[2][3]

\* the id the first row of an empty table with no counter gets
FreshId == NextRowid({}, 0)

\* C6: right after clear_all_sessions the session table has exactly one row,
\* the entry table none, the caller's current session id is the id the first
\* session of an empty database gets, and the next entry to be inserted gets
\* the id the first entry of an empty database gets.
C6_ClearLeavesOneFreshSession ==
    last.op = "clear_all_sessions" =>
        /\ Cardinality(bayesdb_session) = 1
        /\ bayesdb_session = {session_id[last.tracer]}
        /\ bayesdb_session_entries = {}
        /\ session_id[last.tracer] = FreshId
        /\ InsertedEntryId(bayesdb_session_entries, sqlite_sequence) = FreshId
        /\ CapturedEntryId(bayesdb_session_entries, sqlite_sequence) = FreshId

\* a clear after two tracers were constructed and entries were recorded
C6_Witness ==
    /\ last.op = "clear_all_sessions"
    /\ Cardinality(constructed) >= 2
    /\ Len(callbacks) >= 2

\* C7 (as claimed): every entry id handed out is greater than every entry id
\* handed out before it, over the whole run.
C7_IdsIncreaseOverWholeRun ==
    \A u, v \in DOMAIN callbacks :
        u < v => callbacks[u].entry_id < callbacks[v].entry_id

\* C7 (amended): among the entries of the table, which are those inserted
\* since the last clear_all_sessions, ids are unique and increase in the
\* order of insertion, across sessions.
C7_IdsIncreaseSinceClear ==
    \A e1, e2 \in bayesdb_session_entries :
        /\ e1.uid < e2.uid => e1.id < e2.id
        /\ e1.id = e2.id => e1 = e2

\* two entries of different sessions in the table
C7_Witness ==
    \E e1, e2 \in bayesdb_session_entries :
        e1.uid < e2.uid /\ e1.session_id # e2.session_id

\* C8 (as claimed): the current session id of every tracer is the greatest
\* id of the session table.
C8_EveryTracerIsOnLatestSession ==
    \A t \in constructed : session_id[t] = Max(bayesdb_session)

\* C8 (amended): the current session id of the tracer that created a session
\* last, by its construction or its clear_all_sessions, is the greatest id of
\* the session table.
C8_NewestTracerIsOnLatestSession ==
    newest \in constructed =>
        /\ session_id[newest] \in bayesdb_session
        /\ session_id[newest] = Max(bayesdb_session)

\* the second tracer constructed holds the greatest of two session ids
C8_Witness ==
    /\ newest = 2
    /\ Cardinality(bayesdb_session) = 2
    /\ session_id[1] # session_id[2]

\* C9 (as claimed): a trace hook inserts one entry with completed = 0, the
\* tracer's current session id and the hook's type, and an entry of the table
\* stays completed = 0 until its own completion callback is called.
C9_PendingUntilOwnCallback ==
    /\ last.op = "_trace" =>
          \E e \in bayesdb_session_entries :
              /\ e.uid = last.uid
              /\ e.id = last.entry_id
              /\ e.completed = 0
              /\ e.session_id = session_id[last.tracer]
              /\ e.type = last.type
              /\ \A e2 \in bayesdb_session_entries : e2.uid = last.uid => e2 = e
    /\ \A e \in bayesdb_session_entries : e.completed = 1 => CallbackCalled(e)

\* C10: a send_session_data in which no POST fails makes one POST per session
\* id 1, 2, ..., current_session_id(), in that order, each with the dump of
\* that session; and no dump of the loop raises the out-of-range error.
C10_SendPostsEachSessionOnce ==
    last.op = "send_session_data" =>
        /\ last.raised # "ValueError"
        /\ last.raised = "none" =>
              /\ Len(last.posts) = session_id[last.tracer]
              /\ \A i \in DOMAIN last.posts :
                    /\ last.posts[i].id = i
                    /\ Len(last.posts[i].session_json) = Cardinality(EntriesOfSession(i))
                    /\ {last.posts[i].session_json[k] :
                            k \in DOMAIN last.posts[i].session_json} =
                           {<<e.id, e.session_id, e.time, e.type, e.data, e.completed>> :
                                e \in EntriesOfSession(i)}
                    /\ \A k, l \in DOMAIN last.posts[i].session_json :
                           k < l => last.posts[i].session_json[k][3] >=
                                        last.posts[i].session_json[l][3]

\* two sessions sent, the first with entries
C10_Witness ==
    /\ last.op = "send_session_data"
    /\ last.raised = "none"
    /\ Len(last.posts) = 2
    /\ last.posts[1].session_json # <<>>

\* C11 (as claimed): when the POST for session N fails, an error reaches the
\* caller and the POSTs made are those of sessions 1 .. N-1, once each.
C11_FailedPostStopsTheLoop ==
    (last.op = "send_session_data" /\ last.failed > 0) =>
        /\ last.raised # "none"
        /\ Len(last.posts) = last.failed - 1
        /\ \A i \in DOMAIN last.posts : last.posts[i].id = i

\* C11 (amended): when the POST for session N raises, the exception reaches
\* the caller, the POSTs made are those of sessions 1 .. N-1, once each and
\* in order, and the tables are as before the call.
C11_RaisingPostStopsTheLoop ==
    [][(last'.op = "send_session_data" /\ last'.failed > 0 /\ last'.how = "raises") =>
          /\ last'.raised = "RequestException"
          /\ Len(last'.posts) = last'.failed - 1
          /\ \A i \in DOMAIN last'.posts : last'.posts[i].id = i
          /\ UNCHANGED tables]_vars

\* the POST for session 2 raised after session 1, which has entries, was sent
C11_Witness ==
    /\ last.op = "send_session_data"
    /\ last.failed = 2
    /\ last.how = "raises"
    /\ Len(last.posts) = 1
    /\ last.posts[1].session_json # <<>>

\* C12 (as claimed): once a tracer has been constructed the session table
\* is never empty and every tracer's current session id names one of its
\* rows, also between the statements of clear_all_sessions and after one of
\* them has failed.
C12_LogNeverEmpty ==
    constructed # {} =>
        /\ bayesdb_session # {}
        /\ \A t \in constructed : session_id[t] \in bayesdb_session

\* what json.dumps prints for each of the bindings
JsonText(b) ==
    CASE b = [kind |-> "dict", items |-> <<>>] -> "{}"
      [] b = [kind |-> "list", items |-> <<>>] -> "[]"
      [] b = [kind |-> "list", items |-> <<1>>] -> "[1]"
      [] b = [kind |-> "list", items |-> <<1, 2>>] -> "[1, 2]"

\* C13: the data of the entry a trace hook stores is the query text followed
\* at once by the JSON text of the bindings; for the query "SELECT 1;" with
\* the bindings {} it is "SELECT 1;{}".
C13_DataIsQueryThenJson ==
    last.op = "_trace" =>
        \A e \in bayesdb_session_entries :
            e.uid = last.uid =>
                /\ e.data = last.query \o JsonText(last.bindings)
                /\ Len(e.data) = Len(last.query) + Len(JsonText(last.bindings))
                /\ (last.query = "SELECT 1;" /\ last.bindings.kind = "dict")
                       => e.data = "SELECT 1;{}"

\* "SELECT 1;" traced with the bindings {}
C13_Witness ==
    /\ last.op = "_trace"
    /\ last.query = "SELECT 1;"
    /\ last.bindings = [kind |-> "dict", items |-> <<>>]
    /\ \E e \in bayesdb_session_entries : e.uid = last.uid /\ e.data = "SELECT 1;{}"

\* C14: no step of any operation takes an entry of the table from
\* completed = 1 back to completed = 0.
C14_CompletedStaysCompleted ==
    [][\A e \in bayesdb_session_entries :
           e.completed = 1 =>
               \A e2 \in bayesdb_session_entries' : e2.uid = e.uid => e2.completed = 1]_vars

\* a tracer was constructed while the table held a completed entry
C14_Witness ==
    /\ last.op = "__init__"
    /\ \E e \in bayesdb_session_entries : e.completed = 1

\* C15: in the state a completion callback leaves, calling the same callback
\* again changes no row: the UPDATE it runs maps the entry table to itself,
\* and it writes to no other table.
C15_FinishTwiceIsFinishOnce ==
    last.op = "_finish" =>
        FinishedEntries(bayesdb_session_entries, last.entry_id) = bayesdb_session_entries

\* a callback was called on its entry while another entry is pending
C15_Witness ==
    /\ last.op = "_finish"
    /\ \E e \in bayesdb_session_entries : e.uid = last.uid /\ e.completed = 1
    /\ \E e \in bayesdb_session_entries : e.completed = 0

\* C16: stop_saving_sessions leaves the tracer unregistered; while a tracer
\* is unregistered no trace hook of it runs, so it adds no entry; a traced
\* query changes no tracer's current session id and no row of the session
\* table; start_saving_sessions registers the tracer again with the session
\* id it had and creates no session; and a completion callback completes its
\* entry whether or not the tracers are registered.
C16_StoppedTracerRecordsNothing ==
    [][/\ last'.op = "stop_saving_sessions" => ~registered'[last'.tracer]
       /\ Len(callbacks') > Len(callbacks) =>
             /\ registered[last'.tracer]
             /\ session_id' = session_id
             /\ bayesdb_session' = bayesdb_session
       /\ last'.op = "start_saving_sessions" =>
             /\ registered'[last'.tracer]
             /\ session_id' = session_id
             /\ UNCHANGED tables
       /\ last'.op = "_finish" =>
             \A e \in bayesdb_session_entries :
                 e.uid = last'.uid => [e EXCEPT !.completed = 1] \in bayesdb_session_entries'
      ]_vars

\* with every tracer stopped, a callback handed out earlier completed its entry
C16_Witness ==
    /\ last.op = "_finish"
    /\ constructed # {}
    /\ \A t \in constructed : ~registered[t]
    /\ \E e \in bayesdb_session_entries : e.uid = last.uid /\ e.completed = 1

\* C17: every entry's session_id is the id of a row of the session table
\* and lies between 1 and the greatest session id.
C17_EntrySessionExists ==
    \A e \in bayesdb_session_entries :
        /\ e.session_id \in bayesdb_session
        /\ e.session_id >= 1
        /\ e.session_id <= Max(bayesdb_session)

\* C18: the session table holds exactly the ids 1..M; a construction adds
\* exactly one session, whose id is the previous greatest id plus one and is
\* the new tracer's current id; and when that id is above 1 the session its
\* unfinished-entries check examines is the one that was the latest before
\* the construction, the current session of the tracer that created it.
C18_SessionIdsAreConsecutive ==
    [][/\ bayesdb_session' = 1..Cardinality(bayesdb_session')
       /\ last'.op = "__init__" =>
             LET cur == session_id'[last'.tracer]
             IN /\ cur = Max(bayesdb_session \cup {0}) + 1
                /\ bayesdb_session' = bayesdb_session \cup {cur}
                /\ cur > 1 =>
                      /\ ExaminedSession(cur) = Max(bayesdb_session)
                      /\ ExaminedSession(cur) = session_id[newest]
                /\ last'.uncompleted =
                      Cardinality({e \in bayesdb_session_entries :
                                      e.completed = 0 /\ e.session_id = cur - 1})
      ]_vars

\* a second tracer was constructed after a clear and found the first
\* tracer's session with an entry that was never completed
C18_Witness ==
    /\ last.op = "__init__"
    /\ last.tracer = 2
    /\ bayesdb_session = {1, 2}
    /\ sqlite_sequence["bayesdb_session_entries"] = 1
    /\ Len(callbacks) > 1
    /\ last.uncompleted = 1

ReadOnlyOps ==
    {"list_sessions", "current_session_id", "dump_session_as_json",
     "dump_current_session_as_json", "_check_unfinished_entries",
     "send_session_data"}

\* C19: the read-only operations leave the session table, the entry table
\* and every current session id unchanged; a completion callback leaves the
\* session table unchanged, leaves every entry other than its own as it was,
\* and changes nothing of its own entry but the completed flag.
C19_OnlyOwnFlagChanges ==
    [][/\ last'.op \in ReadOnlyOps =>
             /\ bayesdb_session' = bayesdb_session
             /\ bayesdb_session_entries' = bayesdb_session_entries
             /\ session_id' = session_id
       /\ last'.op = "_finish" =>
             /\ bayesdb_session' = bayesdb_session
             /\ session_id' = session_id
             /\ bayesdb_session_entries' =
                   {IF e.uid = last'.uid THEN [e EXCEPT !.completed = 1] ELSE e :
                       e \in bayesdb_session_entries}
      ]_vars


====
